---- MODULE Spec2Model ----
\* Microphone capture pipeline of vocal-mind (matthieu/src/matthieu-mic):
\* the IsSilence stream Transform (silenceTransform.ts) and the mic() session
\* that spawns the recorder subprocess and pipes its output into the Transform.
EXTENDS Integers, Sequences, FiniteSets, Bags, TLC

\* ---------------------------------------------------------------- bounds
\* Bytes in a chunk; the largest exitOnSilence; subprocesses spawned, chunks
\* written by the recorders and lifecycle calls made in one session.
MaxChunkLen == 4
MaxThresh == 3
MaxSpawn == 2
MaxProduced == 2
MaxCalls == 3

\* Byte values the chunks are built from: 00 (silent as low or high byte), 7F
\* (as a high byte a loud positive sample, as in FF 7F) and C8 (as a high byte a
\* loud negative sample).
Bytes == {0, 127, 200}

Chunks == UNION {[1..n -> Bytes] : n \in 0..MaxChunkLen}

\* consecSilenceCount is capped two past the largest threshold.
MaxCount == MaxThresh + 2

\* The value of an omitted option.
Undef == 0 - 1

\* ---------------------------------------------------------------- state
VARIABLES
    exitOnSilence,              \* options.exitOnSilence as given to mic()
    numSilenceFramesExitThresh, \* IsSilence.numSilenceFramesExitThresh
    consecSilenceCount,         \* IsSilence.consecSilenceCount
    last,                       \* the latest _transform call: its chunk, the
                                \* count before it, its effects in order
    silenceRun,                 \* 'silence' emissions since the count was last 0
    debug,                      \* options.debug
    audioProcess,               \* the process handle: NullProc or a pid
    procs,                      \* the subprocesses spawned so far, by pid
    ended,                      \* audioStream.end() has been called
    flowing,                    \* audioStream's readable side is flowing
    rbuf,                       \* chunks pushed by the Transform, not yet read
    received,                   \* chunks the downstream consumer has received
    events,                     \* events emitted on audioStream: a bag
    call,                       \* the latest lifecycle call and how it returned
    ncalls,                     \* lifecycle calls made so far
    osType,                     \* os.type() of the host
    options,                    \* the string options given to mic()
    command                     \* the command line of the latest spawn()

tvars == <<exitOnSilence, numSilenceFramesExitThresh, consecSilenceCount,
           last, silenceRun>>

mvars == <<debug, audioProcess, procs, ended, flowing, rbuf, received, events,
           call, ncalls>>

cvars == <<osType, options, command>>

vars == <<exitOnSilence, numSilenceFramesExitThresh, consecSilenceCount,
          last, silenceRun, debug, audioProcess, procs, ended, flowing, rbuf,
          received, events, call, ncalls, osType, options, command>>

\* ---------------------------------------------------------------- IsSilence
Abs(x) == IF x < 0 THEN -x ELSE x

\* The magnitude a sample must exceed to count as speech.
SpeechThreshold == 2000

SpeechSampleMutUnsigned(lo, hi) == hi * 256 + lo

\* speechSample of the byte pair chunk[i], chunk[i+1].
SpeechSample(lo, hi) ==
    (IF hi > 128 THEN (hi - 256) * 256 ELSE hi * 256) + lo

IsSpeechMutNoAbs(sample) == sample > SpeechThreshold

IsSpeech(sample) == Abs(sample) > SpeechThreshold

\* The for loop of _transform from 0-based index i on, with silenceLength
\* samples found silent so far and scanned samples decoded so far.
RECURSIVE ScanFrom(_, _, _, _)
ScanFrom(chunk, i, silenceLength, scanned) ==
    IF ~(i < Len(chunk))
    THEN [speech |-> FALSE, silenceLength |-> silenceLength, scanned |-> scanned]
    ELSE IF i + 1 < Len(chunk)
         THEN IF IsSpeech(SpeechSample(chunk[i + 1], chunk[i + 2]))
              THEN [speech |-> TRUE, silenceLength |-> silenceLength,
                    scanned |-> scanned + 1]
              ELSE ScanFrom(chunk, i + 2, silenceLength + 1, scanned + 1)
         ELSE ScanFrom(chunk, i + 2, silenceLength, scanned)

Scan(chunk) == ScanFrom(chunk, 0, 0, 0)

\* One effect of a _transform call, in the order the code performs them.
EmitEffect(name) == [kind |-> "emit", name |-> name, chunk |-> <<>>]
PushEffect(chunk) == [kind |-> "push", name |-> "", chunk |-> chunk]

\* silenceLength == chunk.length / 2, a comparison of numbers (not integers).
AllSilent(silenceLength, chunk) == 2 * silenceLength = Len(chunk)

\* emit 'silence' only once each time the threshold condition is met
SilenceReachedMutGeq(consecutiveSilence, thresh) == consecutiveSilence >= thresh

SilenceReached(consecutiveSilence, thresh) == consecutiveSilence = thresh

PushedMutDropSilent(chunk, silent) == IF silent THEN <<>> ELSE <<PushEffect(chunk)>>

Pushed(chunk, silent) == <<PushEffect(chunk)>>

\* _transform(chunk): the new count and the effects, given the count and the
\* threshold before the call.
Transform(count, thresh, chunk) ==
    IF thresh # 0
    THEN LET sc == Scan(chunk)
             c1 == IF sc.speech THEN 0 ELSE count
             silent == AllSilent(sc.silenceLength, chunk)
             c2 == IF silent THEN c1 + 1 ELSE c1
         IN [count |-> c2,
             scanned |-> sc.scanned,
             out |-> (IF silent /\ SilenceReached(c2, thresh)
                      THEN <<EmitEffect("silence")>> ELSE <<>>)
                     \o Pushed(chunk, silent)]
    ELSE [count |-> count, scanned |-> 0, out |-> Pushed(chunk, FALSE)]

EmitsSilence(out) == \E k \in 1..Len(out) : out[k] = EmitEffect("silence")

\* options.exitOnSilence || 0, then parseInt(exitOnSilence.toString(), 10).
ExitThreshMutOne(option) == IF option = Undef \/ option = 0 THEN 1 ELSE option

ExitThresh(option) == IF option = Undef \/ option = 0 THEN 0 ELSE option

\* The state change of one _transform call on the IsSilence object.
TransformStep(chunk) ==
    LET r == Transform(consecSilenceCount, numSilenceFramesExitThresh, chunk)
    IN /\ r.count <= MaxCount
       /\ consecSilenceCount' = r.count
       /\ last' = [chunk |-> chunk, before |-> consecSilenceCount,
                   out |-> r.out, scanned |-> r.scanned, called |-> TRUE]
       /\ silenceRun' = IF r.count = 0 THEN 0
                        ELSE silenceRun + (IF EmitsSilence(r.out) THEN 1 ELSE 0)

NoCall == [chunk |-> <<>>, before |-> 0, out |-> <<>>, scanned |-> 0,
           called |-> FALSE]

\* ---------------------------------------------------------------- options
\* An option that was not given (or given as the empty string).
Omitted == ""

\* option || fallback
Or(option, fallback) == IF option = Omitted THEN fallback ELSE option

NoOptions ==
    [endian |-> Omitted, bitwidth |-> Omitted, encoding |-> Omitted,
     rate |-> Omitted, channels |-> Omitted, device |-> Omitted,
     fileType |-> Omitted]

\* The constants endian .. fileType of mic(), the defaults applied.
Config(o) ==
    [endian |-> Or(o.endian, "little"),
     bitwidth |-> Or(o.bitwidth, "16"),
     encoding |-> Or(o.encoding, "signed-integer"),
     rate |-> Or(o.rate, "16000"),
     channels |-> Or(o.channels, "1"),
     device |-> Or(o.device, "plughw:1,0"),
     fileType |-> Or(o.fileType, "raw")]

FormatEndianMutSwap(endian) == IF endian = "big" THEN "LE" ELSE "BE"

FormatEndian(endian) == IF endian = "big" THEN "BE" ELSE "LE"

FormatEncoding(encoding) == IF encoding = "unsigned-integer" THEN "U" ELSE "S"

\* format = formatEncoding + bitwidth + "_" + formatEndian
Format(c) ==
    FormatEncoding(c.encoding) \o c.bitwidth \o "_" \o FormatEndian(c.endian)

\* The values of os.type() on which type().indexOf("Windows") > -1.
WindowsTypes == {"Windows_NT"}

IsWindows(type) == type \in WindowsTypes

IsMac(type) == type = "Darwin"

\* The command and the arguments start() hands to spawn().
SpawnCommand(type, o) ==
    LET c == Config(o)
    IN IF IsWindows(type)
       THEN [cmd |-> "sox",
             args |-> <<"-b", c.bitwidth, "--endian", c.endian,
                        "-c", c.channels, "-r", c.rate, "-e", c.encoding,
                        "-t", "waveaudio", "default", "-p">>]
       ELSE IF IsMac(type)
       THEN [cmd |-> "rec",
             args |-> <<"-b", c.bitwidth, "--endian", c.endian,
                        "-c", c.channels, "-r", c.rate, "-e", c.encoding,
                        "-t", c.fileType, "-">>]
       ELSE [cmd |-> "arecord",
             args |-> <<"-c", c.channels, "-r", c.rate, "-f", Format(c),
                        "-D", c.device>>]

NoCommand == [cmd |-> "", args |-> <<>>]

\* ---------------------------------------------------------------- mic
NullProc == 0
Pids == 1..MaxSpawn

\* code and sig of a subprocess that has not exited, or that gave none.
NoCode == 0 - 1
NoSig == ""
ExitCodes == {0, 1}

\* A ChildProcess: st is unborn, running, suspended (SIGSTOP) or exited; out is
\* what it wrote to stdout and Node has not read yet; piped: stdout is piped
\* into audioStream; termSent: stop() signalled it while it was alive;
\* exitCode, exitSig: the arguments of its 'exit' event.
NoProc ==
    [st |-> "unborn", out |-> <<>>, produced |-> 0, piped |-> FALSE,
     termSent |-> FALSE, exitCode |-> NoCode, exitSig |-> NoSig]

Alive(proc) == proc.st \in {"running", "suspended"}

Spawned == {p \in Pids : procs[p].st # "unborn"}

\* audioStream.emit(name): the code passes no argument with any event.
Ev(name) == [name |-> name, args |-> <<>>]

Emit(bag, name) == bag (+) SetToBag({Ev(name)})

\* audioProcess.kill(sig) as the operating system acts on it: a signal to a
\* process that has exited does nothing; SIGTERM stays pending on a suspended
\* process until it is continued.
Kill(proc, sig) ==
    IF ~Alive(proc) THEN proc
    ELSE IF sig = "SIGTERM" THEN [proc EXCEPT !.termSent = TRUE]
    ELSE IF sig = "SIGSTOP" THEN [proc EXCEPT !.st = "suspended"]
    ELSE IF sig = "SIGCONT" THEN [proc EXCEPT !.st = "running"]
    ELSE proc

\* audioProcess.kill(sig) throws when Node does not know the signal name on the
\* host: Windows has no SIGSTOP and no SIGCONT.
KillThrows(type, sig) == IsWindows(type) /\ sig \in {"SIGSTOP", "SIGCONT"}

\* The chunks the recorder writes in a session: a quiet and a loud sample.
SessionChunks == {<<0, 0>>, <<0, 127>>}

\* exitOnSilence of the sessions explored.
SessionExitOptions == {Undef, 1}

\* new IsSilence({debug}) followed by setNumSilenceFramesExitThresh(...) in mic().
TInit ==
    /\ numSilenceFramesExitThresh = ExitThresh(exitOnSilence)
    /\ consecSilenceCount = 0
    /\ last = NoCall
    /\ silenceRun = 0

\* mic(options): no process, the audio stream open with its consumer attached.
MInit ==
    /\ audioProcess = NullProc
    /\ procs = [p \in Pids |-> NoProc]
    /\ ended = FALSE
    /\ flowing = TRUE
    /\ rbuf = <<>>
    /\ received = <<>>
    /\ events = EmptyBag
    /\ call = [op |-> "none", threw |-> FALSE]
    /\ ncalls = 0
    /\ command = NoCommand

\* The hosts of the sessions explored: signals differ between them.
SessionTypes == {"Linux", "Windows_NT"}

Init ==
    /\ osType \in SessionTypes
    /\ options = NoOptions
    /\ debug \in BOOLEAN
    /\ exitOnSilence \in SessionExitOptions
    /\ TInit
    /\ MInit

Returned(op, threw) ==
    /\ call' = [op |-> op, threw |-> threw]
    /\ ncalls' = ncalls + 1

\* if (audioProcess === null)
NotStartedMutAlways(handle) == TRUE

NotStarted(handle) == handle = NullProc

\* that.start()
Start ==
    /\ ncalls < MaxCalls
    /\ IF NotStarted(audioProcess)
       THEN /\ Cardinality(Spawned) < MaxSpawn
            /\ LET pid == Cardinality(Spawned) + 1
               IN /\ audioProcess' = pid
                  /\ procs' = [procs EXCEPT ![pid] =
                        [NoProc EXCEPT !.st = "running", !.piped = TRUE]]
            /\ command' = SpawnCommand(osType, options)
            /\ events' = Emit(events, "startComplete")
            /\ Returned("start", FALSE)
       ELSE /\ Returned("start", debug)
            /\ UNCHANGED <<audioProcess, procs, events, command>>
    /\ UNCHANGED <<osType, options, tvars, debug, ended, flowing, rbuf,
                   received>>

\* that.stop()
Stop ==
    /\ ncalls < MaxCalls
    /\ IF audioProcess # NullProc
       THEN /\ procs' = [procs EXCEPT ![audioProcess] = Kill(@, "SIGTERM")]
            /\ audioProcess' = NullProc
            /\ events' = Emit(events, "stopComplete")
       ELSE UNCHANGED <<audioProcess, procs, events>>
    /\ Returned("stop", FALSE)
    /\ UNCHANGED <<cvars, tvars, debug, ended, flowing, rbuf, received>>

\* audioStream.pause(): the readable side stops flowing; what is buffered stays.
StreamPauseMutDiscard(buf) == <<>>

StreamPause(buf) == buf

PauseMutUnguarded ==
    /\ ncalls < MaxCalls
    /\ procs' = IF audioProcess # NullProc
                THEN [procs EXCEPT ![audioProcess] = Kill(@, "SIGSTOP")]
                ELSE procs
    /\ flowing' = FALSE
    /\ rbuf' = StreamPause(rbuf)
    /\ events' = Emit(events, "pauseComplete")
    /\ Returned("pause", FALSE)
    /\ UNCHANGED <<cvars, tvars, debug, audioProcess, ended, received>>

\* that.pause(): when kill() throws, nothing after it runs.
Pause ==
    /\ ncalls < MaxCalls
    /\ IF audioProcess # NullProc /\ ~KillThrows(osType, "SIGSTOP")
       THEN /\ procs' = [procs EXCEPT ![audioProcess] = Kill(@, "SIGSTOP")]
            /\ flowing' = FALSE
            /\ rbuf' = StreamPause(rbuf)
            /\ events' = Emit(events, "pauseComplete")
       ELSE UNCHANGED <<procs, flowing, rbuf, events>>
    /\ Returned("pause", audioProcess # NullProc /\ KillThrows(osType, "SIGSTOP"))
    /\ UNCHANGED <<cvars, tvars, debug, audioProcess, ended, received>>

\* that.resume(): when kill() throws, nothing after it runs.
Resume ==
    /\ ncalls < MaxCalls
    /\ IF audioProcess # NullProc /\ ~KillThrows(osType, "SIGCONT")
       THEN /\ procs' = [procs EXCEPT ![audioProcess] = Kill(@, "SIGCONT")]
            /\ flowing' = TRUE
            /\ events' = Emit(events, "resumeComplete")
       ELSE UNCHANGED <<procs, flowing, events>>
    /\ Returned("resume", audioProcess # NullProc /\ KillThrows(osType, "SIGCONT"))
    /\ UNCHANGED <<cvars, tvars, debug, audioProcess, ended, rbuf, received>>

\* Chunks written by the recorders of the session so far.
RECURSIVE ProducedUpTo(_)
ProducedUpTo(p) == IF p = 0 THEN 0 ELSE procs[p].produced + ProducedUpTo(p - 1)

Produced == ProducedUpTo(MaxSpawn)

\* A running recorder writes a chunk to its standard output.
Produce(p, bytes) ==
    /\ procs[p].st = "running"
    /\ Produced < MaxProduced
    /\ procs' = [procs EXCEPT ![p] =
          [@ EXCEPT !.produced = @ + 1,
                    !.out = Append(@, [pid |-> p, n |-> procs[p].produced + 1,
                                       bytes |-> bytes])]]
    /\ UNCHANGED <<cvars, tvars, debug, audioProcess, ended, flowing, rbuf, received,
                   events, call, ncalls>>

\* The 'exit' listener that start() put on the subprocess: the events after it.
OnExit(bag, code, sig) ==
    IF code # NoCode /\ sig = NoSig
    THEN Emit(bag, "audioProcessExitComplete")
    ELSE bag

\* The subprocess p is gone and its 'exit' listener runs with (code, sig).
Exits(p, code, sig) ==
    /\ procs' = [procs EXCEPT ![p] =
          [@ EXCEPT !.st = "exited", !.exitCode = code, !.exitSig = sig]]
    /\ events' = OnExit(events, code, sig)
    /\ UNCHANGED <<cvars, tvars, debug, audioProcess, ended, flowing, rbuf, received,
                   call, ncalls>>

\* A running recorder exits with a code: of its own accord, or in its handler
\* of the SIGTERM that stop() sent.
ExitWithCode(p, code) ==
    /\ procs[p].st = "running"
    /\ Exits(p, code, NoSig)

\* The SIGTERM of stop() kills a recorder that is not suspended.
TermDelivered(p) ==
    /\ procs[p].st = "running"
    /\ procs[p].termSent
    /\ Exits(p, NoCode, "SIGTERM")

\* A signal from outside the session kills the recorder, suspended or not.
KilledFromOutside(p) ==
    /\ Alive(procs[p])
    /\ Exits(p, NoCode, "SIGKILL")

\* The chunks a _transform call pushed, as the chunk c of the subprocess.
PushedChunks(c, out) ==
    [k \in 1..Len(SelectSeq(out, LAMBDA e : e.kind = "push")) |->
        [c EXCEPT !.bytes = SelectSeq(out, LAMBDA e : e.kind = "push")[k].chunk]]

RECURSIVE EmitAll(_, _)
EmitAll(bag, out) ==
    IF out = <<>> THEN bag
    ELSE EmitAll(IF Head(out).kind = "emit" THEN Emit(bag, Head(out).name)
                 ELSE bag, Tail(out))

\* The readable side has a resume() whose flow has not run yet: it runs on the
\* next tick, before any further stdout 'data' or 'end' is handled.
FlowPending == flowing /\ rbuf # <<>>

\* audioProcess.stdout.pipe(audioStream), a 'data' of stdout: the chunk is
\* written to audioStream and what the Transform pushes goes to the consumer
\* at once when flowing, to the buffer when paused. A write after
\* audioStream.end() fails: the chunk is dropped, audioStream emits 'error' and
\* is destroyed, which unpipes stdout.
PipeData(p) ==
    /\ procs[p].piped
    /\ procs[p].out # <<>>
    /\ ~FlowPending
    /\ LET c == Head(procs[p].out)
       IN IF ended
          THEN /\ procs' = [procs EXCEPT ![p].out = Tail(@), ![p].piped = FALSE]
               /\ events' = Emit(events, "error")
               /\ UNCHANGED <<tvars, rbuf, received>>
          ELSE /\ TransformStep(c.bytes)
               /\ procs' = [procs EXCEPT ![p].out = Tail(@)]
               /\ IF flowing
                  THEN /\ received' = received \o PushedChunks(c, last'.out)
                       /\ rbuf' = rbuf
                  ELSE /\ rbuf' = rbuf \o PushedChunks(c, last'.out)
                       /\ received' = received
               /\ events' = EmitAll(events, last'.out)
               /\ UNCHANGED <<exitOnSilence, numSilenceFramesExitThresh>>
    /\ UNCHANGED <<cvars, debug, audioProcess, ended, flowing, call, ncalls>>

\* audioProcess.stdout.pipe(audioStream), the 'end' of stdout: pipe() was given
\* no {end: false}, so it calls audioStream.end(); on the 'finish' that follows
\* every stdout still piped into audioStream is unpiped.
PipeEnd(p) ==
    /\ procs[p].piped
    /\ procs[p].st = "exited"
    /\ procs[p].out = <<>>
    /\ ~FlowPending
    /\ ended' = TRUE
    /\ procs' = [q \in Pids |->
          IF q = p \/ ~ended THEN [procs[q] EXCEPT !.piped = FALSE]
          ELSE procs[q]]
    /\ UNCHANGED <<cvars, tvars, debug, audioProcess, flowing, rbuf, received, events,
                   call, ncalls>>

\* The flow that resume() scheduled: 'data' events hand the consumer every
\* buffered chunk, in order.
Flow ==
    /\ FlowPending
    /\ received' = received \o rbuf
    /\ rbuf' = <<>>
    /\ UNCHANGED <<cvars, tvars, debug, audioProcess, procs, ended, flowing, events,
                   call, ncalls>>

Next ==
    \/ Start
    \/ Stop
    \/ Pause
    \/ Resume
    \/ \E p \in Pids, bytes \in SessionChunks : Produce(p, bytes)
    \/ \E p \in Pids, code \in ExitCodes : ExitWithCode(p, code)
    \/ \E p \in Pids : TermDelivered(p)
    \/ \E p \in Pids : KilledFromOutside(p)
    \/ \E p \in Pids : PipeData(p)
    \/ \E p \in Pids : PipeEnd(p)
    \/ Flow

\* A session of mic(options): lifecycle calls, the recorder subprocesses and
\* the stream pipeline.
Spec == Init /\ [][Next]_vars

\* audioStream.write(chunk): the Transform processes one chunk.
Write(chunk) ==
    /\ TransformStep(chunk)
    /\ UNCHANGED <<exitOnSilence, numSilenceFramesExitThresh, mvars, cvars>>

TNext == \E chunk \in Chunks : Write(chunk)

\* The Transform of a non-debug session, fed chunks directly; the threshold
\* stays as mic() set it.
InitT ==
    /\ osType = "Linux"
    /\ options = NoOptions
    /\ debug = FALSE
    /\ exitOnSilence \in {Undef} \cup (0..MaxThresh)
    /\ TInit
    /\ MInit

SpecT == InitT /\ [][TNext]_vars

\* The hosts and the option values start() is explored with.
OsTypes == {"Windows_NT", "Darwin", "Linux", "FreeBSD"}

OptionSets ==
    [endian : {Omitted, "little", "big"},
     bitwidth : {Omitted, "8"},
     encoding : {Omitted, "signed-integer", "unsigned-integer"},
     rate : {Omitted, "44100"},
     channels : {Omitted, "2"},
     device : {Omitted, "hw:0,0"},
     fileType : {Omitted, "wav"}]

InitA ==
    /\ osType \in OsTypes
    /\ options \in OptionSets
    /\ debug = FALSE
    /\ exitOnSilence = Undef
    /\ TInit
    /\ MInit

\* start() on any host with any options: the command line it spawns.
SpecA == InitA /\ [][Start]_vars

\* Every value of a byte.
AllBytes == 0..255

\* A session on Linux with exitOnSilence 1 that has been started and whose
\* recorder has written one chunk of one sample, any byte pair.
InitP ==
    /\ osType = "Linux"
    /\ options = NoOptions
    /\ debug = FALSE
    /\ exitOnSilence = 1
    /\ TInit
    /\ audioProcess = 1
    /\ procs \in {[p \in Pids |->
                     IF p = 1
                     THEN [NoProc EXCEPT
                             !.st = "running", !.piped = TRUE, !.produced = 1,
                             !.out = <<[pid |-> 1, n |-> 1,
                                        bytes |-> <<lo, hi>>]>>]
                     ELSE NoProc] : lo \in AllBytes, hi \in AllBytes}
    /\ ended = FALSE
    /\ flowing = TRUE
    /\ rbuf = <<>>
    /\ received = <<>>
    /\ events = Emit(EmptyBag, "startComplete")
    /\ call = [op |-> "start", threw |-> FALSE]
    /\ ncalls = 1
    /\ command = SpawnCommand(osType, options)

\* The chunk reaches the Transform.
SpecP == InitP /\ [][PipeData(1)]_vars

\* setNumSilenceFramesExitThresh(numFrames)
SetNumSilenceFramesExitThresh(numFrames) ==
    /\ numSilenceFramesExitThresh' = numFrames
    /\ UNCHANGED <<exitOnSilence, consecSilenceCount, last, silenceRun, mvars,
                   cvars>>

\* The chunks written between setter calls: those of at most one sample.
ShortChunks == {chunk \in Chunks : Len(chunk) <= 2}

SNext ==
    \/ \E chunk \in ShortChunks : Write(chunk)
    \/ \E numFrames \in 0..MaxThresh : SetNumSilenceFramesExitThresh(numFrames)

\* The Transform fed chunks directly while its owner changes the threshold
\* through the setter.
SpecS == InitT /\ [][SNext]_vars

\* The byte orders a session can be configured with.
Endians == {"little", "big"}

\* A session with an explicit endian option and silence detection on.
InitE ==
    /\ osType = "Linux"
    /\ options \in {[NoOptions EXCEPT !.endian = e] : e \in Endians}
    /\ debug = FALSE
    /\ exitOnSilence \in 1..MaxThresh
    /\ TInit
    /\ MInit

\* The Transform of such a session, fed chunks directly.
SpecE == InitE /\ [][TNext]_vars

\* ================================================================ claims
\* The 16-bit two's-complement little-endian value of the byte pair (lo, hi).
RefSample(lo, hi) ==
    LET v == hi * 256 + lo IN IF v >= 32768 THEN v - 65536 ELSE v

\* The decoded samples of a chunk: its full byte pairs, a trailing byte left out.
RefSamples(chunk) ==
    {RefSample(chunk[2 * k - 1], chunk[2 * k]) : k \in 1..(Len(chunk) \div 2)}

AllQuiet(chunk) == \A s \in RefSamples(chunk) : Abs(s) <= 2000
HasLoud(chunk) == \E s \in RefSamples(chunk) : Abs(s) > 2000

Pushes(out) == SelectSeq(out, LAMBDA e : e.kind = "push")

\* C1: with a fixed non-zero threshold T, a call emits 'silence' exactly when it
\* takes the count from T-1 to T, and between two resets of the count there is
\* at most one 'silence': exactly one once the count has reached T, none before.
C1_SilenceOncePerCrossing ==
    numSilenceFramesExitThresh # 0 =>
        /\ last.called =>
            (EmitsSilence(last.out) <=>
                /\ last.before = numSilenceFramesExitThresh - 1
                /\ consecSilenceCount = numSilenceFramesExitThresh)
        /\ silenceRun =
            (IF consecSilenceCount >= numSilenceFramesExitThresh THEN 1 ELSE 0)

\* C1 witness: threshold 3, the fourth 4-byte all-zero chunk in a row has been
\* processed without a second 'silence'.
C1_Witness ==
    /\ numSilenceFramesExitThresh = 3
    /\ last.chunk = <<0, 0, 0, 0>>
    /\ last.before = 3
    /\ consecSilenceCount = 4
    /\ ~EmitsSilence(last.out)
    /\ silenceRun = 1

\* C2: with a non-zero threshold, a chunk of any length whose decoded samples
\* all have magnitude <= 2000 increases the count by exactly 1.
C2_QuietChunkIncrements ==
    (numSilenceFramesExitThresh # 0 /\ last.called /\ AllQuiet(last.chunk)) =>
        consecSilenceCount = last.before + 1

\* C3: with a non-zero threshold, after a chunk with at least one decoded sample
\* of magnitude > 2000 the count is 0, whatever it was before and wherever the
\* loud sample is.
C3_SpeechResets ==
    (numSilenceFramesExitThresh # 0 /\ last.called /\ HasLoud(last.chunk)) =>
        consecSilenceCount = 0

\* C3 witness: a count of 2 reset by a chunk whose second pair is loud.
C3_Witness ==
    /\ numSilenceFramesExitThresh # 0
    /\ last.called
    /\ last.chunk = <<0, 0, 0, 127>>
    /\ last.before = 2
    /\ consecSilenceCount = 0

\* C4: every call forwards its chunk exactly once and unmodified, as the last
\* effect of the call, whatever the classification and the threshold.
C4_Passthrough ==
    last.called =>
        /\ Pushes(last.out) = <<PushEffect(last.chunk)>>
        /\ last.out[Len(last.out)] = PushEffect(last.chunk)

\* C4 witness: a call that emitted 'silence' has forwarded its chunk 7F 00.
C4_Witness ==
    /\ last.called
    /\ EmitsSilence(last.out)
    /\ last.chunk = <<127, 0>>
    /\ Pushes(last.out) = <<PushEffect(<<127, 0>>)>>

\* C5: with exitOnSilence omitted or 0 the threshold is 0, no sample is
\* scanned, 'silence' is never emitted and the count never leaves 0.
C5_DisabledDetection ==
    (exitOnSilence = Undef \/ exitOnSilence = 0) =>
        /\ numSilenceFramesExitThresh = 0
        /\ consecSilenceCount = 0
        /\ last.scanned = 0
        /\ ~EmitsSilence(last.out)
        /\ silenceRun = 0

\* C5 witness: exitOnSilence omitted, an all-zero chunk has been processed.
C5_Witness ==
    /\ exitOnSilence = Undef
    /\ last.called
    /\ last.chunk = <<0, 0, 0, 0>>

\* How often the event e has been emitted on audioStream.
Count(e) == CopiesIn(e, events)

\* The latest step was the lifecycle call op.
Called(op) == ncalls' = ncalls + 1 /\ call'.op = op

\* The chunks of subprocess p that are on their way or delivered, oldest first:
\* received, then buffered in the Transform, then unread in its stdout.
Chain(p) ==
    SelectSeq(received \o rbuf, LAMBDA c : c.pid = p) \o procs[p].out

Numbers(chunks) == [k \in 1..Len(chunks) |-> chunks[k].n]

\* No chunk of p twice or out of order.
Ordered(p) ==
    \A j, k \in 1..Len(Chain(p)) : j < k => Chain(p)[j].n < Chain(p)[k].n

\* Every chunk p has written is on its way or delivered.
Complete(p) == Numbers(Chain(p)) = [k \in 1..procs[p].produced |-> k]

\* C6: the handle is non-null only while the subprocess it names is running:
\* a subprocess that exits on its own clears it.
C6_HandleClearedOnExit ==
    \A p \in Pids : audioProcess = p => Alive(procs[p])

\* C7: stop() on a running session clears the handle and emits 'stopComplete'
\* once; a start() after it spawns a fresh running subprocess and emits
\* 'startComplete'; and the chunks of a subprocess spawned by such a restart
\* are neither dropped nor left in a stdout that is no longer piped.
C7_RestartAfterStop ==
    [][/\ (Called("stop") /\ audioProcess # NullProc) =>
            /\ audioProcess' = NullProc
            /\ Count(Ev("stopComplete"))' = Count(Ev("stopComplete")) + 1
       /\ (Called("start") /\ audioProcess = NullProc) =>
            /\ audioProcess' \notin Spawned \cup {NullProc}
            /\ procs'[audioProcess'].st = "running"
            /\ procs'[audioProcess'].piped
            /\ Count(Ev("startComplete"))' = Count(Ev("startComplete")) + 1
            /\ ~call'.threw
       /\ \A p \in Pids \ {1} :
            /\ Complete(p)'
            /\ procs'[p].out # <<>> => procs'[p].piped
      ]_vars

\* C8: start() with the handle set spawns nothing and changes neither the
\* handle nor the processes, their piping, the stream or the events; it
\* returns normally when debug is off and throws when debug is on.
C8_StartWhileRunning ==
    [][(Called("start") /\ audioProcess # NullProc) =>
            /\ audioProcess' = audioProcess
            /\ procs' = procs
            /\ events' = events
            /\ <<ended, flowing, rbuf, received>>' = <<ended, flowing, rbuf, received>>
            /\ call'.threw = debug
      ]_vars

\* C8 witness: in debug mode a second start() has thrown, with one subprocess
\* spawned and one 'startComplete'.
C8_Witness ==
    /\ debug
    /\ call = [op |-> "start", threw |-> TRUE]
    /\ Spawned = {1}
    /\ Count(Ev("startComplete")) = 1

\* C9: every subprocess that has exited without stop() having signalled it has
\* brought an 'audioProcessExitComplete' event whose argument is its exit code.
C9_ExitEventCarriesCode ==
    \A p \in Pids :
        (procs[p].st = "exited" /\ ~procs[p].termSent) =>
            Count([name |-> "audioProcessExitComplete",
                   args |-> <<procs[p].exitCode>>]) >= 1

\* C10: the chunks of each subprocess reach the consumer in the order written
\* and none twice, whatever pause() and resume() did in between; and none is
\* lost: while audioStream has not been ended, and throughout a session that
\* was never restarted, every chunk written is delivered or on its way.
C10_PauseResumeKeepsChunks ==
    \A p \in Pids :
        /\ Ordered(p)
        /\ (~ended \/ Spawned \subseteq {1}) => Complete(p)

\* C10 witness: resume() has just been called with one chunk received before
\* the pause and the next one buffered during it.
C10_Witness ==
    /\ call.op = "resume"
    /\ audioProcess = 1
    /\ flowing
    /\ Numbers(received) = <<1>>
    /\ Numbers(rbuf) = <<2>>

\* C11: stop(), pause() and resume() called with the handle null send no
\* signal, emit no event, leave the handle null and the stream as it was, and
\* return normally.
C11_NoOpWithoutProcess ==
    [][\A op \in {"stop", "pause", "resume"} :
          (Called(op) /\ audioProcess = NullProc) =>
              /\ procs' = procs
              /\ events' = events
              /\ audioProcess' = NullProc
              /\ <<ended, flowing, rbuf, received>>' =
                     <<ended, flowing, rbuf, received>>
              /\ ~call'.threw
      ]_vars

\* C11 witness: pause() was the first call of the session: the stream still
\* flows and nothing was emitted.
C11_Witness ==
    /\ call = [op |-> "pause", threw |-> FALSE]
    /\ ncalls = 1
    /\ audioProcess = NullProc
    /\ flowing
    /\ events = EmptyBag

\* C12: between two resets of the count by a speech chunk there is at most one
\* 'silence', whatever the setter does to the threshold in between.
C12_OneSilencePerSilentRun == silenceRun <= 1

\* C13: a call on an odd-length chunk leaves the count, and emits 'silence' or
\* not, as the same call on the chunk without its last byte would.
C13_TrailingByteIgnored ==
    (last.called /\ Len(last.chunk) % 2 = 1) =>
        LET r == Transform(last.before, numSilenceFramesExitThresh,
                           SubSeq(last.chunk, 1, Len(last.chunk) - 1))
        IN /\ consecSilenceCount = r.count
           /\ EmitsSilence(last.out) <=> EmitsSilence(r.out)

\* The 16-bit two's-complement value of the byte pair (first, second) of a
\* chunk in the byte order endian.
EndianSample(endian, first, second) ==
    IF endian = "big" THEN RefSample(second, first) ELSE RefSample(first, second)

EndianSamples(endian, chunk) ==
    {EndianSample(endian, chunk[2 * k - 1], chunk[2 * k]) :
        k \in 1..(Len(chunk) \div 2)}

\* C14: with detection on, a chunk of full sample pairs is classified by its
\* samples in the configured byte order: one of magnitude > 2000 resets the
\* count, none increments it.
C14_DecodesConfiguredEndian ==
    (numSilenceFramesExitThresh # 0 /\ last.called
     /\ Len(last.chunk) % 2 = 0) =>
        IF \E x \in EndianSamples(Config(options).endian, last.chunk) :
               Abs(x) > 2000
        THEN consecSilenceCount = 0
        ELSE consecSilenceCount = last.before + 1

\* The value an option takes: the documented default when it is omitted.
Given(option, default) == IF option = "" THEN default ELSE option

\* C15: the command of a spawn is sox on Windows, rec on macOS and arecord on
\* any other host, each with its arguments taken from the options with the
\* defaults applied; for arecord they are -c channels -r rate
\* -f <S|U><bitwidth>_<LE|BE> -D device, which with no option given is
\* -c 1 -r 16000 -f S16_LE -D plughw:1,0.
C15_ProfileAndArguments ==
    command # NoCommand =>
        LET bitwidth == Given(options.bitwidth, "16")
            endian == Given(options.endian, "little")
            encoding == Given(options.encoding, "signed-integer")
            rate == Given(options.rate, "16000")
            channels == Given(options.channels, "1")
            device == Given(options.device, "plughw:1,0")
            fileType == Given(options.fileType, "raw")
        IN /\ command.cmd = (IF osType = "Windows_NT" THEN "sox"
                             ELSE IF osType = "Darwin" THEN "rec"
                             ELSE "arecord")
           /\ command.cmd = "sox" =>
                command.args = <<"-b", bitwidth, "--endian", endian,
                                 "-c", channels, "-r", rate, "-e", encoding,
                                 "-t", "waveaudio", "default", "-p">>
           /\ command.cmd = "rec" =>
                command.args = <<"-b", bitwidth, "--endian", endian,
                                 "-c", channels, "-r", rate, "-e", encoding,
                                 "-t", fileType, "-">>
           /\ command.cmd = "arecord" =>
                command.args =
                    <<"-c", channels, "-r", rate, "-f",
                      (IF encoding = "unsigned-integer" THEN "U" ELSE "S")
                          \o bitwidth \o "_"
                          \o (IF endian = "big" THEN "BE" ELSE "LE"),
                      "-D", device>>
           /\ (command.cmd = "arecord" /\ options = NoOptions) =>
                command.args = <<"-c", "1", "-r", "16000", "-f", "S16_LE",
                                 "-D", "plughw:1,0">>

\* C15 witness: start() on Linux with no option given has spawned arecord with
\* the default arguments.
C15_Witness ==
    /\ osType = "Linux"
    /\ options = NoOptions
    /\ call.op = "start"
    /\ audioProcess = 1
    /\ command = [cmd |-> "arecord",
                  args |-> <<"-c", "1", "-r", "16000", "-f", "S16_LE",
                             "-D", "plughw:1,0">>]

\* C16: a lifecycle call throws only when it is start(), debug is on and the
\* handle is set; stop(), pause() and resume() never throw.
C16_OnlyDuplicateStartThrows ==
    [][(ncalls' = ncalls + 1 /\ call'.threw) =>
            /\ call'.op = "start"
            /\ debug
            /\ audioProcess # NullProc
      ]_vars

\* C17: with threshold 1 and the count at 0, a chunk of one byte pair (lo, hi)
\* leaves the count at 0 exactly when the magnitude of its 16-bit
\* two's-complement little-endian value is greater than 2000, and takes it to
\* 1 otherwise.
C17_SpeechIffMagnitudeAbove2000 ==
    (last.called /\ Len(last.chunk) = 2 /\ last.before = 0
     /\ numSilenceFramesExitThresh = 1) =>
        /\ consecSilenceCount \in {0, 1}
        /\ consecSilenceCount = 0 <=>
              Abs(RefSample(last.chunk[1], last.chunk[2])) > 2000

\* C17 witness: the sample D0 07, of value exactly 2000, was counted as silent.
C17_Witness ==
    /\ last.called
    /\ last.chunk = <<208, 7>>
    /\ RefSample(last.chunk[1], last.chunk[2]) = 2000
    /\ consecSilenceCount = 1

\* C18: at most one subprocess has its stdout piped into audioStream, and
\* audioStream is not ended while the subprocess of the handle is alive.
C18_OnePipedSubprocess ==
    /\ Cardinality({p \in Pids : procs[p].piped}) <= 1
    /\ (audioProcess # NullProc /\ Alive(procs[audioProcess])) => ~ended

\* C19: a subprocess that is alive without being the one of the handle is
\* running with the SIGTERM of stop() on its way: none is left suspended, out
\* of reach of resume().
C19_StoppedSubprocessTerminates ==
    \A p \in Pids :
        (Alive(procs[p]) /\ audioProcess # p) =>
            /\ procs[p].st = "running"
            /\ procs[p].termSent

\* C20: a step that emits 'silence' emits it before it forwards the triggering
\* chunk, and at that moment every chunk forwarded earlier has reached the
\* consumer: none is still waiting in the buffer of audioStream.
C20_SilenceInChunkOrder ==
    [][Count(Ev("silence"))' > Count(Ev("silence")) =>
            /\ last'.out = <<EmitEffect("silence"), PushEffect(last'.chunk)>>
            /\ rbuf = <<>>
      ]_vars

\* C21: stop() on a running session emits 'stopComplete' and nothing else, and
\* the exit of a subprocess that stop() has signalled, by the signal or with a
\* code, emits no 'audioProcessExitComplete'.
C21_StoppedExitIsSilent ==
    [][/\ (Called("stop") /\ audioProcess # NullProc) =>
            events' = Emit(events, "stopComplete")
       /\ \A p \in Pids :
            (procs[p].termSent /\ Alive(procs[p]) /\ procs'[p].st = "exited") =>
                Count(Ev("audioProcessExitComplete"))' =
                    Count(Ev("audioProcessExitComplete"))
      ]_vars

====
